---- MODULE Spec2Model ----
(***************************************************************************)
(* Model of the event dispatcher ("Brain") of botty.                       *)
(*                                                                         *)
(* Goroutines of the model:                                                *)
(*   - producers calling Brain.Emit,                                       *)
(*   - the queue goroutine started by Brain.consumeEvents,                 *)
(*   - the dispatch loop Brain.HandleEvents (called once, by Bot.Run),     *)
(*   - one transient goroutine per handler invocation                      *)
(*     (Brain.executeEventHandler),                                        *)
(*   - the caller that requests the shutdown on Brain.shutdown,            *)
(*   - the main goroutine, which registers the handlers and calls Bot.Run. *)
(* An unrecovered panic in any goroutine ends the whole Go process, so     *)
(* every action is guarded by Alive.                                       *)
(***************************************************************************)
EXTENDS Integers, Sequences, FiniteSets, TLC

VARIABLES
    handlers,        \* Brain.handlers: registered type -> handler ids, in registration order
    handlerTimeout,  \* Brain.handlerTimeout (0 disables the timeout)
    handlingEvents,  \* Brain.handlingEvents (atomic int32)
    closed,          \* Brain.closed (atomic int32)
    RegistrationErrs, \* Brain.RegistrationErrs: error messages, in order
    bpc,             \* position of the main goroutine (setup, then Bot.Run)
    inputClosed,     \* eventsInput has been closed
    loopClosed,      \* eventsLoop has been closed
    queue,           \* the slice "queue" of the queue goroutine
    qpc,             \* position of the queue goroutine
    ppc,             \* position of each producer
    nsent,           \* number of Emit calls of each producer that returned
    lpc,             \* position of the dispatch loop
    ctx,             \* the context the loop passes to handleEvent
    shutdown,        \* the local variable "shutdown" of HandleEvents
    cur,             \* the local Event of the running (or last) handleEvent call
    hs,              \* the handlers determineHandlers resolved for cur
    hidx,            \* index into hs of the handler invoked next / last
    execErr,         \* the value the last executeEventHandler call returned
    orphans,         \* handler goroutines the executor stopped waiting for
    invoked,         \* handler ids invoked for cur, in order
    cbLog,           \* callbacks of cur invoked so far, in order
    abortBy,         \* history: the handler invocation that set cur.AbortEarly
    dispatched,      \* ids of the events handed to handleEvent, in order
    drained,         \* ids of the events dispatched after the shutdown request
    spc,             \* position of the shutdown caller
    ctxDone,         \* the shutdown caller's context is cancelled
    akind,           \* the Adapter variant: "cli" or "discord"
    closing,         \* CLIAdapter.closing: "chan", or "nil" once closed
    mu,              \* CLIAdapter.mu: "free" or "held"
    apc,             \* position of the goroutine CLIAdapter.loop
    lines,           \* the local variable "lines" of loop: "input" or "nil"
    callback,        \* events in the one-slot channel "callback" of loop
    outstanding,     \* events loop emitted whose callback has not been called
    stdin,           \* lines still to be read from CLIAdapter.Input
    stdinOpen,       \* CLIAdapter.Input has not been closed
    output,          \* what has been written to CLIAdapter.Output, in order
    clpc,            \* position of each caller of Adapter.Close
    closeLate,       \* the running Close call began after a Close call returned
    closeLog,        \* history: the Close calls that returned, in order
    sendLog,         \* history: the results of the Send calls, in order
    memory,          \* inMemory.data of the Storage: key -> encoded value
    storageLog,      \* history: the Storage calls with their results, in order
    rmu,             \* Brain.mu: "free", "reader", or the registrar holding it
    rpc,             \* position of each concurrent caller of RegisterHandler
    rres,            \* what registerHandler computed for the running call
    rread,           \* the slice the running call loaded before its append
    rcalls,          \* RegisterHandler calls begun by each caller
    stored,          \* history: handlers whose registration completed
    errsDue,         \* history: number of calls that appended their error
    dpc,             \* position of a determineHandlers call
    dseen            \* the registry the last determineHandlers call ranged over

vars == <<handlers, handlerTimeout, handlingEvents, closed,
          RegistrationErrs, bpc, inputClosed,
          loopClosed, queue, qpc, ppc, nsent, lpc, ctx, shutdown, cur,
          hs, hidx, execErr, orphans, invoked, cbLog, abortBy,
          dispatched, drained, spc, ctxDone,
          akind, closing, mu, apc, lines, callback, outstanding, stdin,
          stdinOpen, output, clpc, closeLate, closeLog, sendLog,
          memory, storageLog,
          rmu, rpc, rres, rread, rcalls, stored, errsDue, dpc, dseen>>

----------------------------------------------------------------------------
(* Bounds *)

MaxEvents    == 2   \* Emit calls over all producers
MaxHandlers  == 2   \* successful RegisterHandler calls
MaxCallbacks == 2   \* completion callbacks passed to one Emit
MaxOrphans   == 1   \* handler invocations the executor abandons
MaxRegErrs   == 2   \* errors appended to RegistrationErrs
MaxParams    == 3   \* parameters of a function passed to RegisterHandler
MaxOuts      == 2   \* return values of a function passed to RegisterHandler
MaxLines     == 2   \* lines the CLIAdapter can read from its Input
MaxCloses    == 3   \* calls of Adapter.Close
MaxSends     == 2   \* calls of Adapter.Send
MaxValueLen  == 2   \* bytes (or runes) of a string passed to Storage.Set
MaxOps       == 3   \* calls of the Storage operations
MaxRegCalls  == 2   \* RegisterHandler calls of one concurrent caller

(* Program constants *)

Minute == 60        \* time.Minute, the default handlerTimeout (in seconds)

----------------------------------------------------------------------------
(* Types of payloads and of handlers *)

Producers == {"p1", "p2"}

\* runtime types of emitted payloads; "nil" is the untyped nil interface value
\* (Emit takes an interface{}), which has no runtime type
PayloadTypes == {"Greeting", "nil"}

\* the payload types a handler can be registered for
RegTypes == {"Greeting", "Greeter", "Any"}

\* reflect.Type.Kind() == reflect.Interface
IsInterface(t) == t \in {"Greeter", "Any"}

\* reflect.Type.Implements: Greeting has the method of Greeter (InitEvent and
\* ShutdownEvent have no methods), and every type implements the empty
\* interface
Implements(t, iface) ==
    \/ iface = "Any"
    \/ iface = "Greeter" /\ t = "Greeting"

InitEvent     == "InitEvent"
ShutdownEvent == "ShutdownEvent"

InitId     == <<"init", 0>>
ShutdownId == <<"shutdown", 0>>

\* Event{Data: event, Callbacks: callbacks}; AbortEarly is the zero value
NewEvent(id, data, callbacks) ==
    [id |-> id, Data |-> data, Callbacks |-> callbacks, AbortEarly |-> FALSE]

NoEvent == NewEvent(<<"none", 0>>, "none", <<>>)

\* no handler has set AbortEarly on the event in dispatch
NoAbort == [evt |-> NoEvent.id, hid |-> 0, late |-> FALSE]

----------------------------------------------------------------------------
(* Pure helpers *)

\* number of handlers registered so far
NumHandlers == Len(handlers["Greeting"]) + Len(handlers["Greeter"]) + Len(handlers["Any"])

\* the keys of the map Brain.handlers
HandlerKeys == {t \in RegTypes : handlers[t] # <<>>}

\* the orders in which "for handlerType, hh := range b.handlers" can visit
\* the keys: Go leaves the iteration order of a map unspecified
MapOrders(keys) ==
    {o \in [1..Cardinality(keys) -> keys] :
        \A i, j \in 1..Cardinality(keys) : i # j => o[i] # o[j]}

\* mutant of collectHandlers: only the handlers of the exact type are kept
RECURSIVE collectHandlersExactOnly(_, _, _, _)
collectHandlersExactOnly(order, i, eventType, acc) ==
    IF i > Len(order) THEN acc
    ELSE collectHandlersExactOnly(order, i + 1, eventType,
            IF order[i] = eventType THEN acc \o handlers[order[i]] ELSE acc)

\* the body of the range loop of determineHandlers, for the keys order[i..]
RECURSIVE collectHandlers(_, _, _, _)
collectHandlers(order, i, eventType, acc) ==
    IF i > Len(order) THEN acc
    ELSE LET handlerType == order[i]
             hh == handlers[handlerType]
             a1 == IF handlerType = eventType THEN acc \o hh ELSE acc
             a2 == IF IsInterface(handlerType) /\ Implements(eventType, handlerType)
                   THEN a1 \o hh ELSE a1
         IN collectHandlers(order, i + 1, eventType, a2)

\* Brain.determineHandlers: every slice it can return for eventType
determineHandlers(eventType) ==
    {collectHandlers(o, 1, eventType, <<>>) : o \in MapOrders(HandlerKeys)}

\* ids of the events whose Emit call returned
Accepted == {id \in Producers \X (1..MaxEvents) : id[2] <= nsent[id[1]]}

\* Emit calls made so far (returned or still sending)
NumEmits ==
    LET calls(p) == nsent[p] + (IF ppc[p] = "idle" THEN 0 ELSE 1)
    IN calls("p1") + calls("p2")

\* an unrecovered panic in one goroutine ends the process
Alive ==
    /\ lpc # "panicked"
    /\ bpc # "panicked"
    /\ \A p \in Producers : ppc[p] # "panicked"

Range(s) == {s[i] : i \in 1..Len(s)}

----------------------------------------------------------------------------
(* Initial state: NewBrain() has returned, the queue goroutine is running *)

\* the callers of Adapter.Close
Closers == {"c1", "c2"}

\* the adapter of the given variant after NewCLIAdapter / NewDiscordAdapter:
\* RegisterAt has not been called
NewAdapter(kind) ==
    /\ akind = kind
    /\ closing = "chan"
    /\ mu = "free"
    /\ apc = "idle"
    /\ lines = "nil"
    /\ callback = 0
    /\ outstanding = 0
    /\ stdin = MaxLines
    /\ stdinOpen = TRUE
    /\ output = <<>>
    /\ clpc = [c \in Closers |-> "idle"]
    /\ closeLate = [c \in Closers |-> FALSE]
    /\ closeLog = <<>>
    /\ sendLog = <<>>

\* state of the Brain after NewBrain()
NewBrain ==
    /\ handlers = [t \in RegTypes |-> <<>>]
    /\ handlerTimeout \in {0, Minute}
    /\ handlingEvents = 0
    /\ closed = 0
    /\ RegistrationErrs = <<>>
    /\ bpc = "setup"
    /\ inputClosed = FALSE
    /\ loopClosed = FALSE
    /\ queue = <<>>
    /\ qpc = "select"
    /\ ppc = [p \in Producers |-> "idle"]
    /\ nsent = [p \in Producers |-> 0]
    /\ lpc = "idle"
    /\ ctx = "background"
    /\ shutdown = "unset"
    /\ cur = NoEvent
    /\ hs = <<>>
    /\ hidx = 0
    /\ execErr = "nil"
    /\ orphans = {}
    /\ invoked = <<>>
    /\ cbLog = <<>>
    /\ abortBy = NoAbort
    /\ dispatched = <<>>
    /\ drained = {}
    /\ spc = "idle"
    /\ ctxDone = FALSE

\* New() of cmd/botty: the Brain and the DiscordAdapter
\* keys of the Storage, and the mark of a key that is not in the map
StorageKeys == {"k1", "k2"}
NoData      == <<"absent">>

\* NewStorage: an empty inMemory and the jsonEncoder
NewStorage ==
    /\ memory = [k \in StorageKeys |-> NoData]
    /\ storageLog = <<>>

\* goroutines that call RegisterHandler concurrently
Registrars == {"r1", "r2"}
NoResult   == [err |-> "nil", eventType |-> "none", id |-> 0]

\* Brain.mu unlocked, and no RegisterHandler or determineHandlers call begun
NewRegistrars ==
    /\ rmu = "free"
    /\ rpc = [r \in Registrars |-> "idle"]
    /\ rres = [r \in Registrars |-> NoResult]
    /\ rread = [r \in Registrars |-> <<>>]
    /\ rcalls = [r \in Registrars |-> 0]
    /\ stored = {}
    /\ errsDue = 0
    /\ dpc = "idle"
    /\ dseen = [t \in RegTypes |-> <<>>]

Init == NewBrain /\ NewAdapter("discord") /\ NewStorage /\ NewRegistrars

adapterVars  == <<akind, closing, mu, apc, lines, callback, outstanding,
                  stdin, stdinOpen, output, clpc, closeLate, closeLog,
                  sendLog>>
\* the parts of the bot beside the Brain
storageVars  == <<memory, storageLog>>
registryVars == <<rmu, rpc, rres, rread, rcalls, stored, errsDue, dpc, dseen>>
wiringVars   == <<adapterVars, storageVars, registryVars>>
brainVars    == <<handlers, handlerTimeout, handlingEvents, closed,
                  RegistrationErrs, bpc, wiringVars>>
queueVars    == <<inputClosed, loopClosed, queue, qpc>>
producerVars == <<ppc, nsent>>
handleVars   == <<cur, hs, hidx, execErr, orphans, invoked, cbLog, abortBy,
                  dispatched, drained>>
callerVars   == <<spc, ctxDone>>

----------------------------------------------------------------------------
(* Brain.RegisterHandler.  The process wiring registers every handler      *)
(* (Bot.Respond, Bot.RespondRegexp) before the adapter starts to emit and   *)
(* before Bot.Run enters HandleEvents.                                      *)

\* the types a parameter of a handler function can have: context.Context, a
\* pointer type, or one of the types handlers are registered under
ParamKinds == {"ctx", "ptr"} \cup RegTypes

\* the types of a return value: one that implements error, or another one
OutKinds == {"error", "other"}

SeqsUpTo(S, n) == UNION {[1..k -> S] : k \in 0..n}

\* the values passed as "fun": the nil interface value, a value that is not
\* a function, and the functions by their parameter and result types
HandlerShapes ==
    {[kind |-> k, in |-> <<>>, out |-> <<>>] : k \in {"nil", "value"}}
    \cup {[kind |-> "func", in |-> i, out |-> o] :
             i \in SeqsUpTo(ParamKinds, MaxParams), o \in SeqsUpTo(OutKinds, MaxOuts)}

\* Implements(contextInterface) of a parameter type
ImplementsContext(k) == k = "ctx"

checkHandlerParams(in) ==
    LET numParams   == Len(in)
        eventType   == in[numParams]
        withContext == numParams = 2
        result(e)   == [eventType |-> IF numParams = 0 THEN "none" ELSE eventType,
                        withContext |-> withContext, err |-> e]
    IN  IF numParams = 0 \/ numParams > 2
        THEN [eventType |-> "none", withContext |-> FALSE,
              err |-> "event handler needs one or two arguments"]
        ELSE IF withContext /\ ImplementsContext(in[2])
        THEN result("event handler context must be the first argument")
        ELSE IF withContext /\ ~ImplementsContext(in[1])
        THEN result("event handler has two arguments but the first is not a context.Context")
        ELSE IF eventType = "ptr"
        THEN result("event handler argument cannot be a pointer")
        ELSE result("nil")

checkHandlerReturnValues(out) ==
    CASE Len(out) = 0 -> [returnsError |-> FALSE, err |-> "nil"]
      [] Len(out) = 1 ->
            IF out[1] # "error"
            THEN [returnsError |-> FALSE,
                  err |-> "if the event handler has a return value it must implement the error interface"]
            ELSE [returnsError |-> TRUE, err |-> "nil"]
      [] OTHER -> [returnsError |-> FALSE,
                   err |-> "event handler has more than one return value"]

\* Brain.registerHandler up to the update of the map: what the call does
\* with fun.  reflect.ValueOf(nil) is the zero Value, whose Type() panics.
registerHandler(fun) ==
    LET params  == checkHandlerParams(fun.in)
        returns == checkHandlerReturnValues(fun.out)
        failed(e) == [panics |-> FALSE, err |-> e, eventType |-> "none"]
    IN  IF fun.kind = "nil"
        THEN [panics |-> TRUE, err |-> "nil", eventType |-> "none"]
        ELSE IF fun.kind # "func" THEN failed("Event handler is not a function")
        ELSE IF params.err # "nil" THEN failed(params.err)
        ELSE IF returns.err # "nil" THEN failed(returns.err)
        ELSE [panics |-> FALSE, err |-> "nil", eventType |-> params.eventType]

\* the main goroutine sets the bot up: Bot.Run has not been called and no
\* adapter emits yet
SetupPhase ==
    /\ Alive
    /\ bpc = "setup"
    /\ lpc = "idle"
    /\ NumEmits = 0
    /\ spc = "idle"

\* RegisterHandler(fun): the panic of registerHandler ends the process, its
\* error is appended to RegistrationErrs, and on success the handler is
\* appended to the list of its event type.  (A function of the one parameter
\* context.Context is registered under context.Context, which no payload
\* of the model implements; the registry of the model keeps no such key.)
RegisterHandler(fun) ==
    /\ SetupPhase
    /\ LET r == registerHandler(fun)
       IN  IF r.panics
           THEN /\ bpc' = "panicked"
                /\ UNCHANGED <<handlers, RegistrationErrs>>
           ELSE IF r.err # "nil"
           THEN /\ Len(RegistrationErrs) < MaxRegErrs
                /\ RegistrationErrs' = Append(RegistrationErrs, r.err)
                /\ UNCHANGED <<handlers, bpc>>
           ELSE /\ r.eventType \in RegTypes
                /\ NumHandlers < MaxHandlers
                /\ handlers' = [handlers EXCEPT ![r.eventType] = Append(@, NumHandlers + 1)]
                /\ UNCHANGED <<RegistrationErrs, bpc>>
    /\ UNCHANGED <<handlerTimeout, handlingEvents, closed, wiringVars,
                   queueVars, producerVars, lpc, ctx, shutdown, handleVars,
                   callerVars>>

----------------------------------------------------------------------------
(* Producers: Brain.Emit is a send on the unbuffered channel eventsInput    *)

\* the callbacks a producer passes to Emit: p1 passes the completion
\* callbacks 1..MaxCallbacks with every event (as CLIAdapter.loop passes its
\* callbackFun), p2 passes none (as DiscordAdapter.handleMessageEvent)
CallbacksOf(p) == IF p = "p1" THEN [i \in 1..MaxCallbacks |-> i] ELSE <<>>

\* Emit is called: the producer blocks in "b.eventsInput <- Event{...}"
EmitCall(p) ==
    /\ Alive
    /\ ppc[p] = "idle"
    /\ NumEmits < MaxEvents
    /\ ppc' = [ppc EXCEPT ![p] = "sending"]
    /\ UNCHANGED <<brainVars, queueVars, nsent, lpc, ctx, shutdown,
                   handleVars, callerVars>>

\* mutant of AppendEvent: the new event is put in front of the queue
AppendEventInFront(q, event) == <<event>> \o q

\* what "queue = append(queue, event)" leaves in the queue
AppendEvent(q, event) == Append(q, event)

\* mutant of EmitAccept: the queue goroutine receives from eventsInput only
\* while it holds no event (it offers its one event to the loop first)
EmitAcceptWhenEmpty(p, data) ==
    /\ Alive
    /\ ppc[p] = "sending"
    /\ qpc = "select"
    /\ ~inputClosed
    /\ queue = <<>>
    /\ queue' = AppendEvent(queue, NewEvent(<<p, nsent[p] + 1>>, data, CallbacksOf(p)))
    /\ ppc' = [ppc EXCEPT ![p] = "idle"]
    /\ nsent' = [nsent EXCEPT ![p] = @ + 1]
    /\ UNCHANGED <<brainVars, inputClosed, loopClosed, qpc, lpc, ctx,
                   shutdown, handleVars, callerVars>>

\* the queue goroutine receives Event{Data: data, Callbacks: callbacks} from
\* eventsInput and appends it; Emit returns.  Nothing reads the Event before
\* this step, so its payload is drawn here.
EmitAccept(p, data) ==
    /\ Alive
    /\ ppc[p] = "sending"
    /\ qpc = "select"
    /\ ~inputClosed
    /\ queue' = AppendEvent(queue, NewEvent(<<p, nsent[p] + 1>>, data, CallbacksOf(p)))
    /\ ppc' = [ppc EXCEPT ![p] = "idle"]
    /\ nsent' = [nsent EXCEPT ![p] = @ + 1]
    /\ UNCHANGED <<brainVars, inputClosed, loopClosed, qpc, lpc, ctx,
                   shutdown, handleVars, callerVars>>

\* a send on a closed channel panics, also when the sender was already
\* blocked in the send at the time of the close
EmitPanic(p) ==
    /\ Alive
    /\ ppc[p] = "sending"
    /\ inputClosed
    /\ ppc' = [ppc EXCEPT ![p] = "panicked"]
    /\ UNCHANGED <<brainVars, queueVars, nsent, lpc, ctx, shutdown,
                   handleVars, callerVars>>

----------------------------------------------------------------------------
(* The queue goroutine of Brain.consumeEvents                               *)

\* "case event, ok := <-b.eventsInput" with ok == false
QueueSeesClose ==
    /\ Alive
    /\ qpc = "select"
    /\ inputClosed
    /\ qpc' = "flush"
    /\ UNCHANGED <<brainVars, inputClosed, loopClosed, queue, producerVars,
                   lpc, ctx, shutdown, handleVars, callerVars>>

\* mutant of QueueCloseLoop: eventsLoop is closed without the flush loop
QueueCloseLoopNoFlush ==
    /\ Alive
    /\ qpc = "flush"
    /\ loopClosed' = TRUE
    /\ qpc' = "done"
    /\ UNCHANGED <<brainVars, inputClosed, queue, producerVars, lpc, ctx,
                   shutdown, handleVars, callerVars>>

\* the flush loop is over: close(b.eventsLoop); return
QueueCloseLoop ==
    /\ Alive
    /\ qpc = "flush"
    /\ queue = <<>>
    /\ loopClosed' = TRUE
    /\ qpc' = "done"
    /\ UNCHANGED <<brainVars, inputClosed, queue, producerVars, lpc, ctx,
                   shutdown, handleVars, callerVars>>

----------------------------------------------------------------------------
(* Brain.handleEvent, up to the first handler invocation                    *)

\* reflect.ValueOf(nil).Type() panics: the zero reflect.Value has no type
handleEventPanics(event) == event.Data = "nil"

\* the local Event of a handleEvent call is a copy of its argument
eventCopy(event) == event

handleEvent(event) ==
    /\ dispatched' = Append(dispatched, event.id)
    /\ drained' = IF shutdown # "unset" /\ event.id[1] \in Producers
                  THEN drained \cup {event.id} ELSE drained
    /\ cur' = eventCopy(event)
    /\ invoked' = <<>>
    /\ cbLog' = <<>>
    /\ abortBy' = NoAbort
    /\ execErr' = "nil"
    /\ IF handleEventPanics(event)
       THEN /\ lpc' = "panicked"
            /\ hs' = <<>>
            /\ hidx' = 0
       ELSE \E resolved \in determineHandlers(event.Data) :
            /\ hs' = resolved
            /\ hidx' = 1
            /\ lpc' = IF resolved = <<>> THEN "callbacks" ELSE "exec"
    /\ UNCHANGED orphans

----------------------------------------------------------------------------
(* Brain.HandleEvents                                                       *)

\* mutant of HandleEventsStart: the loop is entered without the Init event
HandleEventsStartNoInit ==
    /\ Alive
    /\ lpc = "idle"
    /\ lpc' = "select"
    /\ handlingEvents' = 1
    /\ UNCHANGED <<handlers, handlerTimeout, closed, RegistrationErrs,
                   wiringVars, queueVars, producerVars, ctx, shutdown,
                   handleVars, callerVars>>

\* HandleEvents is called: isClosed check, handlingEvents = 1, Init event
HandleEventsStart ==
    /\ Alive
    /\ lpc = "idle"
    /\ IF closed = 1
       THEN /\ lpc' = "returned"
            /\ UNCHANGED <<handlingEvents, handleVars>>
       ELSE /\ handlingEvents' = 1
            /\ handleEvent(NewEvent(InitId, InitEvent, <<>>))
    /\ UNCHANGED <<handlers, handlerTimeout, closed, RegistrationErrs,
                   wiringVars, queueVars, producerVars, ctx, shutdown,
                   callerVars>>

\* mutant of RecvEvent: the next event is taken from eventsLoop while the
\* executor still waits for a handler of the event in dispatch
RecvEventWhileWaiting ==
    /\ Alive
    /\ lpc \in {"select", "wait"}
    /\ qpc \in {"select", "flush"}
    /\ queue # <<>>
    /\ queue' = Tail(queue)
    /\ handleEvent(Head(queue))
    /\ UNCHANGED <<brainVars, inputClosed, loopClosed, qpc, producerVars,
                   ctx, shutdown, callerVars>>

\* "case evt, ok := <-b.eventsLoop" with ok == true: the queue goroutine
\* sends its head, from its select ("queue = queue[1:]") or from its flush loop
RecvEvent ==
    /\ Alive
    /\ lpc = "select"
    /\ qpc \in {"select", "flush"}
    /\ queue # <<>>
    /\ queue' = Tail(queue)
    /\ handleEvent(Head(queue))
    /\ UNCHANGED <<brainVars, inputClosed, loopClosed, qpc, producerVars,
                   ctx, shutdown, callerVars>>

\* "case evt, ok := <-b.eventsLoop" with ok == false
RecvClosed ==
    /\ Alive
    /\ lpc = "select"
    /\ loopClosed
    /\ handleEvent(NewEvent(ShutdownId, ShutdownEvent, <<>>))
    /\ UNCHANGED <<brainVars, queueVars, producerVars, ctx, shutdown,
                   callerVars>>

\* "case shutdown = <-b.shutdown": the caller's send "b.shutdown <- req" and
\* the loop's receive meet (the channel is unbuffered; a caller blocked in
\* the send changes nothing); a second close of eventsInput would panic
RecvShutdown ==
    /\ Alive
    /\ lpc = "select"
    /\ spc = "idle"
    /\ shutdown' = "set"
    /\ ctx' = "shutdown"
    /\ IF inputClosed
       THEN /\ lpc' = "panicked"
            /\ UNCHANGED <<inputClosed, handlingEvents>>
       ELSE /\ inputClosed' = TRUE
            /\ handlingEvents' = 0
            /\ UNCHANGED lpc
    /\ spc' = "waiting"
    /\ UNCHANGED <<handlers, handlerTimeout, closed, RegistrationErrs, bpc,
                   wiringVars, loopClosed, queue, qpc, producerVars,
                   handleVars, ctxDone>>

\* mutant of LoopNext: the loop goes on after the Shutdown event
LoopNextNoReturn ==
    /\ Alive
    /\ lpc = "handled"
    /\ lpc' = "select"
    /\ cur' = NoEvent
    /\ hs' = <<>>
    /\ hidx' = 0
    /\ invoked' = <<>>
    /\ cbLog' = <<>>
    /\ abortBy' = NoAbort
    /\ UNCHANGED <<brainVars, queueVars, producerVars, ctx, shutdown,
                   execErr, orphans, dispatched, drained, callerVars>>

\* handleEvent has returned: back to the select, or, after the Shutdown
\* event, on to "shutdown.callback <- true"
LoopNext ==
    /\ Alive
    /\ lpc = "handled"
    /\ lpc' = IF cur.Data = ShutdownEvent THEN "ack" ELSE "select"
    /\ cur' = NoEvent
    /\ hs' = <<>>
    /\ hidx' = 0
    /\ invoked' = <<>>
    /\ cbLog' = <<>>
    /\ abortBy' = NoAbort
    /\ UNCHANGED <<brainVars, queueVars, producerVars, ctx, shutdown,
                   execErr, orphans, dispatched, drained, callerVars>>

\* "shutdown.callback <- true; return": the channel is unbuffered, the send
\* meets the caller's receive
Acknowledge ==
    /\ Alive
    /\ lpc = "ack"
    /\ shutdown = "set"
    /\ spc = "waiting"
    /\ lpc' = "returned"
    /\ spc' = "returned"
    /\ UNCHANGED <<brainVars, queueVars, producerVars, ctx, shutdown,
                   handleVars, ctxDone>>

----------------------------------------------------------------------------
(* Brain.executeEventHandler and the handler loop of Brain.handleEvent      *)

\* "go func() { done <- handler(ctx, event) }()" for the handler hs[hidx];
\* the executor then waits in its select while the handler runs
Invoke ==
    /\ Alive
    /\ lpc = "exec"
    /\ invoked' = Append(invoked, hs[hidx])
    /\ execErr' = "nil"
    /\ lpc' = "wait"
    /\ UNCHANGED <<brainVars, queueVars, producerVars, ctx, shutdown, cur,
                   hs, hidx, orphans, cbLog, abortBy, dispatched,
                   drained, callerVars>>

\* the running handler calls FinishEventContent(ctx): ctx carries the
\* pointer to the local Event of this handleEvent call
HandlerAbort ==
    /\ Alive
    /\ lpc = "wait"
    /\ ~cur.AbortEarly
    /\ cur' = [cur EXCEPT !.AbortEarly = TRUE]
    /\ abortBy' = [evt |-> cur.id, hid |-> hs[hidx], late |-> FALSE]
    /\ UNCHANGED <<brainVars, queueVars, producerVars, lpc, ctx, shutdown,
                   hs, hidx, execErr, orphans, invoked, cbLog, dispatched,
                   drained, callerVars>>

\* mutant of handlerResult: the wrapper swallows the panic of the handler
\* body and reports no error
handlerResultPanicLost(outcome) ==
    CASE outcome = "nil"   -> "nil"
      [] outcome = "error" -> "handler error"
      [] outcome = "panic" -> "nil"

\* newHandlerFunc: what the wrapper returns when the handler body returns
\* nil, returns an error, or panics (recovered by the deferred function)
handlerResult(outcome) ==
    CASE outcome = "nil"   -> "nil"
      [] outcome = "error" -> "handler error"
      [] outcome = "panic" -> "handler panic"

\* mutant of afterHandler: the loop does not break on AbortEarly
afterHandlerNoBreak(abortEarly) ==
    IF hidx >= Len(hs)
    THEN lpc' = "callbacks" /\ hidx' = hidx
    ELSE lpc' = "exec" /\ hidx' = hidx + 1

\* mutant of afterHandler: an error of the handler ends the handler loop
afterHandlerStopsOnError(abortEarly) ==
    IF abortEarly \/ execErr' # "nil" \/ hidx >= Len(hs)
    THEN lpc' = "callbacks" /\ hidx' = hidx
    ELSE lpc' = "exec" /\ hidx' = hidx + 1

\* the rest of the loop body of handleEvent after executeEventHandler
\* returned: "if event.AbortEarly { break }", else the next handler
afterHandler(abortEarly) ==
    IF abortEarly \/ hidx >= Len(hs)
    THEN lpc' = "callbacks" /\ hidx' = hidx
    ELSE lpc' = "exec" /\ hidx' = hidx + 1

\* the handler body ends with the given outcome and its send on done meets
\* "case err := <-done: return err"
ExecDone(outcome) ==
    /\ Alive
    /\ lpc = "wait"
    /\ execErr' = handlerResult(outcome)
    /\ afterHandler(cur.AbortEarly)
    /\ UNCHANGED <<brainVars, queueVars, producerVars, ctx, shutdown, cur,
                   hs, orphans, invoked, cbLog, abortBy, dispatched,
                   drained, callerVars>>

\* ctx.Err() once ctx.Done() is closed: by the timer of context.WithTimeout,
\* or by the parent context that came with the shutdown request
ctxErr(cause) == IF cause = "timer" THEN "DeadlineExceeded" ELSE "Canceled"

\* mutant of ExecTimeout: the executor notes the error of the context but
\* keeps waiting for the handler
ExecTimeoutKeepsWaiting(cause) ==
    /\ Alive
    /\ lpc = "wait"
    /\ \/ cause = "timer" /\ handlerTimeout > 0
       \/ cause = "parent" /\ ctx = "shutdown" /\ ctxDone
    /\ execErr # ctxErr(cause)
    /\ execErr' = ctxErr(cause)
    /\ UNCHANGED <<brainVars, queueVars, producerVars, lpc, ctx, shutdown, cur,
                   hs, hidx, orphans, invoked, cbLog, abortBy, dispatched,
                   drained, callerVars>>

\* "case <-ctx.Done(): return ctx.Err()": the executor stops waiting, the
\* goroutine of the handler keeps running
ExecTimeout(cause) ==
    /\ Alive
    /\ lpc = "wait"
    /\ \/ cause = "timer" /\ handlerTimeout > 0
       \/ cause = "parent" /\ ctx = "shutdown" /\ ctxDone
    /\ Cardinality(orphans) < MaxOrphans
    /\ execErr' = ctxErr(cause)
    /\ orphans' = orphans \cup
          {[evt |-> cur.id, hid |-> hs[hidx], st |-> "running", did |-> FALSE]}
    /\ afterHandler(cur.AbortEarly)
    /\ UNCHANGED <<brainVars, queueVars, producerVars, ctx, shutdown, cur,
                   hs, invoked, cbLog, abortBy, dispatched, drained,
                   callerVars>>

\* mutant of pointsToCur: every handleEvent call shares one Event
pointsToShared(evt) == cur # NoEvent

\* the Event a goroutine invoked for the event evt reaches through its ctx
\* (ctxKeyEvent) is the local Event of that handleEvent call: it is cur only
\* while that call is still running
pointsToCur(evt) == evt = cur.id

\* the body of an abandoned handler ends, after a late call of
\* FinishEventContent(ctx) (abort) or without one: the write to AbortEarly is
\* not synchronised with the loop and lands in the Event of the handleEvent
\* call the handler was invoked by; the goroutine then blocks in its send on
\* the unbuffered channel done, which has no receiver any more
OrphanFinish(o, abort) ==
    /\ Alive
    /\ o \in orphans
    /\ o.st = "running"
    /\ orphans' = (orphans \ {o}) \cup {[o EXCEPT !.st = "blocked", !.did = abort]}
    /\ IF abort /\ pointsToCur(o.evt) /\ ~cur.AbortEarly
       THEN /\ cur' = [cur EXCEPT !.AbortEarly = TRUE]
            /\ abortBy' = [evt |-> o.evt, hid |-> o.hid, late |-> TRUE]
       ELSE UNCHANGED <<cur, abortBy>>
    /\ UNCHANGED <<brainVars, queueVars, producerVars, lpc, ctx, shutdown,
                   hs, hidx, execErr, invoked, cbLog, dispatched, drained,
                   callerVars>>

\* the callback the loop "for _, callback := range event.Callbacks" calls
\* in its iteration i
callbackAt(callbacks, i) == callbacks[i]

\* one iteration of the callback loop: callback(event)
Callback ==
    /\ Alive
    /\ lpc = "callbacks"
    /\ Len(cbLog) < Len(cur.Callbacks)
    /\ cbLog' = Append(cbLog, callbackAt(cur.Callbacks, Len(cbLog) + 1))
    /\ execErr' = "nil"
    /\ UNCHANGED <<brainVars, queueVars, producerVars, lpc, ctx, shutdown,
                   cur, hs, hidx, orphans, invoked, abortBy,
                   dispatched, drained, callerVars>>

\* the callback loop is over: handleEvent returns
HandleEventReturn ==
    /\ Alive
    /\ lpc = "callbacks"
    /\ Len(cbLog) >= Len(cur.Callbacks)
    /\ lpc' = "handled"
    /\ execErr' = "nil"
    /\ UNCHANGED <<brainVars, queueVars, producerVars, ctx, shutdown, cur,
                   hs, hidx, orphans, invoked, cbLog, abortBy,
                   dispatched, drained, callerVars>>

----------------------------------------------------------------------------
(* Bot.RespondRegexp and Bot.Run, called by the main goroutine              *)

\* a regular expression is a sequence of tokens: the anchor "^", the flag
\* group "(?i)", a literal "a", and an opening parenthesis "(" that is never
\* closed
ExprTokens == {"^", "(?i)", "a", "("}

MaxExprLen == 2   \* tokens of an expression passed to RespondRegexp

Exprs == SeqsUpTo(ExprTokens, MaxExprLen)

\* strings.HasPrefix(expr, prefix)
HasPrefix(expr, prefix) ==
    /\ Len(expr) >= Len(prefix)
    /\ SubSeq(expr, 1, Len(prefix)) = prefix

\* the expression RespondRegexp compiles: made case insensitive and anchored
caseInsensitive(expr) ==
    IF expr[1] = "^"
    THEN IF ~HasPrefix(expr, <<"^", "(?i)">>)
         THEN <<"^", "(?i)">> \o Tail(expr)
         ELSE expr
    ELSE IF ~HasPrefix(expr, <<"(?i)">>)
         THEN <<"^", "(?i)">> \o expr
         ELSE expr

\* regexp.Compile(expr) returns no error
Compiles(expr) == \A i \in 1..Len(expr) : expr[i] # "("

\* the handler RespondRegexp registers:
\* func(ctx context.Context, evt events.ReceiveMessageEvent) error, the
\* concrete payload type of the model standing for ReceiveMessageEvent
RespondHandler == [kind |-> "func", in |-> <<"ctx", "Greeting">>, out |-> <<"error">>]

RespondRegexp(expr) ==
    IF expr = <<>>
    THEN SetupPhase /\ UNCHANGED vars
    ELSE IF ~Compiles(caseInsensitive(expr))
    THEN /\ SetupPhase
         /\ Len(RegistrationErrs) < MaxRegErrs
         /\ RegistrationErrs' = Append(RegistrationErrs, "someone: error parsing regexp")
         /\ UNCHANGED <<handlers, handlerTimeout, handlingEvents, closed, bpc,
                        wiringVars, queueVars, producerVars, lpc, ctx,
                        shutdown, handleVars, callerVars>>
    ELSE RegisterHandler(RespondHandler)

\* mutant of BotRun: HandleEvents is entered whatever RegistrationErrs holds
BotRunUnchecked ==
    /\ Alive
    /\ bpc = "setup"
    /\ bpc' = "running"
    /\ HandleEventsStart

\* Bot.Run: refuses with an error while RegistrationErrs is not empty, else
\* calls Brain.HandleEvents.  (Adapter.RegisterAt of the DiscordAdapter only
\* starts the producer goroutine, which the producers of the model are.)
BotRun ==
    /\ Alive
    /\ bpc = "setup"
    /\ IF Len(RegistrationErrs) > 0
       THEN /\ bpc' = "refused"
            /\ UNCHANGED <<handlers, handlerTimeout, handlingEvents, closed,
                           RegistrationErrs, wiringVars, queueVars,
                           producerVars, lpc, ctx, shutdown, handleVars,
                           callerVars>>
       ELSE /\ bpc' = "running"
            /\ HandleEventsStart

----------------------------------------------------------------------------
(* The adapters: CLIAdapter (internal/adapter/adapter.go) and               *)
(* DiscordAdapter (internal/adapter/discord_adapter.go).  The Brain is the  *)
(* environment here: it accepts the event of an Emit call and later calls   *)
(* the completion callbacks of the event.                                   *)

\* everything of the Brain, which no step of an adapter changes
brainState == <<handlers, handlerTimeout, handlingEvents, closed,
                RegistrationErrs, bpc, queueVars, producerVars, lpc, ctx,
                shutdown, handleVars, callerVars, storageVars, registryVars>>

\* CLIAdapter.print, called with mu free, for the messages msgs in turn: a
\* closed adapter prints nothing and print returns with mu still locked
printed(msgs) == IF closing = "nil" THEN output ELSE output \o msgs
muAfterPrint == IF closing = "nil" THEN "held" ELSE mu

\* Close calls made so far
NumCloses == Len(closeLog) + Cardinality({c \in Closers : clpc[c] # "idle"})

\* RegisterAt: "go a.loop(brain)" / "go a.handleDiscordEvents(brain)"
AdapterRegisterAt ==
    /\ Alive
    /\ apc = "idle"
    /\ apc' = "select"
    /\ lines' = "input"
    /\ UNCHANGED <<brainState, akind, closing, mu, callback, outstanding,
                   stdin, stdinOpen, output, clpc, closeLate, closeLog,
                   sendLog>>

\* CLIAdapter.loop taking a line without switching its lines case off
LoopLineKeepsReading ==
    /\ Alive
    /\ akind = "cli"
    /\ apc = "select"
    /\ lines = "input"
    /\ stdinOpen /\ stdin > 0
    /\ mu = "free"
    /\ stdin' = stdin - 1
    /\ output' = printed(<<"line">>)
    /\ mu' = muAfterPrint
    /\ apc' = "emit"
    /\ UNCHANGED <<brainState, akind, closing, lines, callback, outstanding,
                   stdinOpen, clpc, closeLate, closeLog, sendLog>>

\* CLIAdapter.loop, "case msg, ok := <-lines" with ok: the line is printed
\* and b.Emit is called with callbackFun
LoopLine ==
    /\ Alive
    /\ akind = "cli"
    /\ apc = "select"
    /\ lines = "input"
    /\ stdinOpen /\ stdin > 0
    /\ mu = "free"
    /\ stdin' = stdin - 1
    /\ lines' = "nil"
    /\ output' = printed(<<"line">>)
    /\ mu' = muAfterPrint
    /\ apc' = "emit"
    /\ UNCHANGED <<brainState, akind, closing, callback, outstanding,
                   stdinOpen, clpc, closeLate, closeLog, sendLog>>

\* CLIAdapter.loop, "case msg, ok := <-lines" with !ok: readLines closed the
\* channel at the end of the input
LoopEOF ==
    /\ Alive
    /\ akind = "cli"
    /\ apc = "select"
    /\ lines = "input"
    /\ stdin = 0 \/ ~stdinOpen
    /\ lines' = "nil"
    /\ UNCHANGED <<brainState, akind, closing, mu, apc, callback, outstanding,
                   stdin, stdinOpen, output, clpc, closeLate, closeLog,
                   sendLog>>

\* DiscordAdapter.handleDiscordEvents: a message arrives and
\* handleMessageEvent calls brain.Emit without callbacks
DiscordMessage ==
    /\ Alive
    /\ akind = "discord"
    /\ apc = "select"
    /\ stdin > 0
    /\ stdin' = stdin - 1
    /\ apc' = "emit"
    /\ UNCHANGED <<brainState, akind, closing, mu, lines, callback,
                   outstanding, stdinOpen, output, clpc, closeLate, closeLog,
                   sendLog>>

\* the queue goroutine of the Brain receives the event: Emit returns
BrainAccepts ==
    /\ Alive
    /\ apc = "emit"
    /\ apc' = "select"
    /\ outstanding' = IF akind = "cli" THEN outstanding + 1 ELSE outstanding
    /\ UNCHANGED <<brainState, akind, closing, mu, lines, callback, stdin,
                   stdinOpen, output, clpc, closeLate, closeLog, sendLog>>

\* handleEvent calls callbackFun: "callback <- evt" on the one-slot channel
BrainCallback ==
    /\ Alive
    /\ outstanding > 0
    /\ callback = 0
    /\ callback' = 1
    /\ outstanding' = outstanding - 1
    /\ UNCHANGED <<brainState, akind, closing, mu, apc, lines, stdin,
                   stdinOpen, output, clpc, closeLate, closeLog, sendLog>>

\* the callback case of loop leaving the event in the callback channel
LoopCallbackKeepsSlot ==
    /\ Alive
    /\ akind = "cli"
    /\ apc = "select"
    /\ callback = 1
    /\ lines = "nil"
    /\ mu = "free"
    /\ output' = printed(<<"prefix">>)
    /\ mu' = muAfterPrint
    /\ lines' = "input"
    /\ UNCHANGED <<brainState, akind, closing, apc, callback, outstanding,
                   stdin, stdinOpen, clpc, closeLate, closeLog, sendLog>>

\* CLIAdapter.loop, "case <-callback": the prefix is printed and the lines
\* case is switched on again
LoopCallback ==
    /\ Alive
    /\ akind = "cli"
    /\ apc = "select"
    /\ callback = 1
    /\ mu = "free"
    /\ callback' = 0
    /\ output' = printed(<<"prefix">>)
    /\ mu' = muAfterPrint
    /\ lines' = "input"
    /\ UNCHANGED <<brainState, akind, closing, apc, outstanding, stdin,
                   stdinOpen, clpc, closeLate, closeLog, sendLog>>

\* CLIAdapter.loop, "case result := <-a.closing": the request of the Close
\* call c is received, the prompt is finished, a.Input is closed and its
\* result (nil for the open input) is sent back; the loop returns.  With
\* closing nil the first print returns with mu locked and the next one blocks.
LoopClosing(c) ==
    /\ Alive
    /\ akind = "cli"
    /\ apc = "select"
    /\ clpc[c] = "send"
    /\ mu = "free"
    /\ output' = printed(IF lines = "nil" THEN <<"prefix", "newline">>
                                          ELSE <<"newline">>)
    /\ mu' = muAfterPrint
    /\ IF closing = "nil" /\ lines = "nil"
       THEN apc' = "blocked" /\ UNCHANGED <<stdinOpen, clpc>>
       ELSE /\ apc' = "returned"
            /\ stdinOpen' = FALSE
            /\ clpc' = [clpc EXCEPT ![c] = "lock"]
    /\ UNCHANGED <<brainState, akind, closing, lines, callback, outstanding,
                   stdin, closeLate, closeLog, sendLog>>

\* one entry of closeLog: the call of c, whether it began after a Close call
\* had returned, and the error it returned
CloseResult(c, late, err) == [by |-> c, late |-> late, err |-> err]

\* Adapter.Close is called by c.  DiscordAdapter.Close returns nil.
\* CLIAdapter.Close returns "already closed" when closing is nil, else it
\* sends its callback channel on closing and waits for the answer.
CloseCall(c) ==
    /\ Alive
    /\ clpc[c] = "idle"
    /\ NumCloses < MaxCloses
    /\ IF akind = "discord"
       THEN /\ closeLog' = Append(closeLog, CloseResult(c, closeLog # <<>>, "nil"))
            /\ UNCHANGED <<clpc, closeLate>>
       ELSE IF closing = "nil"
       THEN /\ closeLog' = Append(closeLog,
                               CloseResult(c, closeLog # <<>>, "already closed"))
            /\ UNCHANGED <<clpc, closeLate>>
       ELSE /\ clpc' = [clpc EXCEPT ![c] = "send"]
            /\ closeLate' = [closeLate EXCEPT ![c] = closeLog # <<>>]
            /\ UNCHANGED closeLog
    /\ UNCHANGED <<brainState, akind, closing, mu, apc, lines, callback,
                   outstanding, stdin, stdinOpen, output, sendLog>>

\* CLIAdapter.Close after "err := <-callback": closing is set to nil under
\* mu and err is returned
CloseReturn(c) ==
    /\ Alive
    /\ clpc[c] = "lock"
    /\ mu = "free"
    /\ closing' = "nil"
    /\ clpc' = [clpc EXCEPT ![c] = "idle"]
    /\ closeLog' = Append(closeLog, CloseResult(c, closeLate[c], "nil"))
    /\ UNCHANGED <<brainState, akind, mu, apc, lines, callback, outstanding,
                   stdin, stdinOpen, output, closeLate, sendLog>>

\* Adapter.Send.  CLIAdapter.Send is print(text + "\n"): it blocks for ever
\* on a mu that an earlier print left locked.  DiscordAdapter.Send returns
\* what Client.ChannelMessageSend returns.
SendCall(clientErr) ==
    /\ Alive
    /\ Len(sendLog) < MaxSends
    /\ IF akind = "discord"
       THEN /\ sendLog' = Append(sendLog, clientErr)
            /\ UNCHANGED <<output, mu>>
       ELSE /\ clientErr = "nil"
            /\ IF mu = "held"
               THEN /\ sendLog' = Append(sendLog, "blocked")
                    /\ UNCHANGED <<output, mu>>
               ELSE /\ sendLog' = Append(sendLog,
                          IF closing = "nil" THEN "adapter is closed" ELSE "nil")
                    /\ output' = printed(<<"text">>)
                    /\ mu' = muAfterPrint
    /\ UNCHANGED <<brainState, akind, closing, apc, lines, callback,
                   outstanding, stdin, stdinOpen, clpc, closeLate, closeLog>>

AdapterNext ==
    \/ AdapterRegisterAt
    \/ LoopLine
    \/ LoopEOF
    \/ DiscordMessage
    \/ BrainAccepts
    \/ BrainCallback
    \/ LoopCallback
    \/ \E c \in Closers : LoopClosing(c)
    \/ \E c \in Closers : CloseCall(c)
    \/ \E c \in Closers : CloseReturn(c)
    \/ \E clientErr \in {"nil", "client error"} : SendCall(clientErr)

\* an adapter of either variant beside a Brain that has just been made
AdapterInit ==
    /\ NewBrain
    /\ \E kind \in {"cli", "discord"} : NewAdapter(kind)
    /\ NewStorage
    /\ NewRegistrars

AdapterSpec == AdapterInit /\ [][AdapterNext]_vars

----------------------------------------------------------------------------
(* The Storage: an inMemory map behind the jsonEncoder.  Every operation    *)
(* takes Storage.mu around its access to the map, so each is one step.      *)

\* everything of the Bot beside its Storage
botState == <<handlers, handlerTimeout, handlingEvents, closed,
              RegistrationErrs, bpc, queueVars, producerVars, lpc, ctx,
              shutdown, handleVars, callerVars, adapterVars, registryVars>>

\* what a Go string is made of: an ASCII letter, a double quote, a byte that
\* is not valid UTF-8, and the rune U+FFFD in its valid encoding
StringBytes == {"a", "dq", "0xFF", "U+FFFD"}

\* the values passed to Set: strings, and a channel, which json.Marshal
\* refuses with an UnsupportedTypeError
StorageValues ==
    [kind : {"string"}, bytes : SeqsUpTo(StringBytes, MaxValueLen)]
        \cup {[kind |-> "chan", bytes |-> <<>>]}

\* the targets passed to Get: nil, or a pointer to a string variable
Targets == {"nil", "ptr"}
NoOut   == <<"unset">>

\* json.Marshal writes a string between double quotes, a double quote in it
\* as \", and every byte that is not valid UTF-8 as the
\* escape of U+FFFD
escape(b) ==
    CASE b = "dq"   -> "\\dq"
      [] b = "0xFF" -> "\\ufffd"
      [] OTHER      -> b

\* json.Unmarshal reads the escapes back
unescape(t) ==
    CASE t = "\\dq"    -> "dq"
      [] t = "\\ufffd" -> "U+FFFD"
      [] OTHER         -> t

\* jsonEncoder.Encode
Encode(value) ==
    IF value.kind = "chan"
    THEN [data |-> NoData, err |-> "json: unsupported type"]
    ELSE [data |-> <<"dq">> \o [i \in 1..Len(value.bytes) |-> escape(value.bytes[i])]
                            \o <<"dq">>,
          err  |-> "nil"]

\* the text is one JSON string: delimited by double quotes, none bare inside
IsJSONString(data) ==
    /\ Len(data) >= 2
    /\ data[1] = "dq"
    /\ data[Len(data)] = "dq"
    /\ \A i \in 2..(Len(data) - 1) : data[i] \notin {"dq", "0xFF"}

\* jsonEncoder.Decode into a *string; the nil slice of an absent key is an
\* empty input, which json.Unmarshal rejects
Decode(data) ==
    IF data = NoData \/ data = <<>>
    THEN [out |-> NoOut, err |-> "unexpected end of JSON input"]
    ELSE IF ~IsJSONString(data)
    THEN [out |-> NoOut, err |-> "invalid character"]
    ELSE [out |-> [i \in 1..(Len(data) - 2) |-> unescape(data[i + 1])],
          err |-> "nil"]

\* one entry of storageLog
StorageCall(op, key, value, target, found, err, out) ==
    [op |-> op, key |-> key, value |-> value, target |-> target,
     found |-> found, err |-> err, out |-> out]

\* Storage.Set
StorageSet(key, value) ==
    /\ Len(storageLog) < MaxOps
    /\ LET e == Encode(value) IN
       IF e.err # "nil"
       THEN /\ storageLog' = Append(storageLog,
                  StorageCall("Set", key, value, "nil", FALSE,
                              "Failed to encode value", NoOut))
            /\ UNCHANGED memory
       ELSE /\ memory' = [memory EXCEPT ![key] = e.data]
            /\ storageLog' = Append(storageLog,
                  StorageCall("Set", key, value, "nil", FALSE, "nil", NoOut))
    /\ UNCHANGED botState

\* Storage.Get: inMemory.Get never fails; a nil target gives (ok, nil); else
\* the data is decoded, and (true, nil) is returned when that succeeds
StorageGet(key, target) ==
    /\ Len(storageLog) < MaxOps
    /\ LET data == memory[key]
           ok   == data # NoData
           d    == Decode(data)
       IN  storageLog' = Append(storageLog,
              IF target = "nil"
              THEN StorageCall("Get", key, NoOut, target, ok, "nil", NoOut)
              ELSE IF d.err # "nil"
              THEN StorageCall("Get", key, NoOut, target, FALSE,
                               "Failed to Decode value", NoOut)
              ELSE StorageCall("Get", key, NoOut, target, TRUE, "nil", d.out))
    /\ UNCHANGED <<botState, memory>>

\* Storage.Delete
StorageDelete(key) ==
    /\ Len(storageLog) < MaxOps
    /\ memory' = [memory EXCEPT ![key] = NoData]
    /\ storageLog' = Append(storageLog,
          StorageCall("Delete", key, NoOut, "nil", memory[key] # NoData,
                      "nil", NoOut))
    /\ UNCHANGED botState

\* the order sort.Strings puts the keys in
KeyOrder == <<"k1", "k2">>

\* Storage.Keys: the keys of the map, sorted
StorageKeysCall ==
    /\ Len(storageLog) < MaxOps
    /\ storageLog' = Append(storageLog,
          StorageCall("Keys", "-", NoOut, "nil", FALSE, "nil",
                      SelectSeq(KeyOrder, LAMBDA k : memory[k] # NoData)))
    /\ UNCHANGED <<botState, memory>>

\* Storage.Close: inMemory.Close replaces the map by an empty one
StorageClose ==
    /\ Len(storageLog) < MaxOps
    /\ memory' = [k \in StorageKeys |-> NoData]
    /\ storageLog' = Append(storageLog,
          StorageCall("Close", "-", NoOut, "nil", FALSE, "nil", NoOut))
    /\ UNCHANGED botState

StorageNext ==
    \/ \E key \in StorageKeys, value \in StorageValues : StorageSet(key, value)
    \/ \E key \in StorageKeys, target \in Targets : StorageGet(key, target)
    \/ \E key \in StorageKeys : StorageDelete(key)
    \/ StorageKeysCall
    \/ StorageClose

StorageSpec == Init /\ [][StorageNext]_vars

----------------------------------------------------------------------------
(* RegisterHandler called from several goroutines, beside a dispatch that   *)
(* resolves handlers.  The steps are the accesses to what they share:       *)
(* Brain.mu, Brain.handlers and Brain.RegistrationErrs.                     *)

\* everything these calls leave alone
notRegistry == <<handlerTimeout, handlingEvents, closed, bpc, queueVars,
                 producerVars, lpc, ctx, shutdown, handleVars, callerVars,
                 adapterVars, storageVars>>

\* the functions the concurrent callers pass: two valid ones, of different
\* payload types, and two that registerHandler refuses
RaceShapes ==
    { [kind |-> "func",  in |-> <<"Greeting">>,       out |-> <<>>],
      [kind |-> "func",  in |-> <<"ctx", "Greeter">>, out |-> <<"error">>],
      [kind |-> "value", in |-> <<>>,                 out |-> <<>>],
      [kind |-> "func",  in |-> <<>>,                 out |-> <<>>] }

\* the eventHandler that newHandlerFunc makes in the n-th call of r
HandlerOf(r, n) == 2 * (n - 1) + (IF r = "r1" THEN 1 ELSE 2)

\* RegisterHandler up to the first shared access: registerHandler validates
\* fun, which touches nothing shared
RegBegin(r, fun) ==
    /\ rpc[r] = "idle"
    /\ rcalls[r] < MaxRegCalls
    /\ LET res == registerHandler(fun) IN
       /\ ~res.panics
       /\ rres' = [rres EXCEPT ![r] = [err       |-> res.err,
                                       eventType |-> res.eventType,
                                       id        |-> HandlerOf(r, rcalls[r] + 1)]]
       /\ rpc' = [rpc EXCEPT ![r] = IF res.err = "nil" THEN "lock" ELSE "loadErrs"]
    /\ rcalls' = [rcalls EXCEPT ![r] = @ + 1]
    /\ UNCHANGED <<notRegistry, handlers, RegistrationErrs, rmu, rread,
                   stored, errsDue, dpc, dseen>>

\* b.mu.Lock() without waiting for the lock to be free
RegLockUnguarded(r) ==
    /\ rpc[r] = "lock"
    /\ rmu' = r
    /\ rread' = [rread EXCEPT ![r] = handlers[rres[r].eventType]]
    /\ rpc' = [rpc EXCEPT ![r] = "locked"]
    /\ UNCHANGED <<notRegistry, handlers, RegistrationErrs, rres, rcalls,
                   stored, errsDue, dpc, dseen>>

\* registerHandler: b.mu.Lock(), and b.handlers[eventType] is read for the
\* append
RegLock(r) ==
    /\ rpc[r] = "lock"
    /\ rmu = "free"
    /\ rmu' = r
    /\ rread' = [rread EXCEPT ![r] = handlers[rres[r].eventType]]
    /\ rpc' = [rpc EXCEPT ![r] = "locked"]
    /\ UNCHANGED <<notRegistry, handlers, RegistrationErrs, rres, rcalls,
                   stored, errsDue, dpc, dseen>>

\* registerHandler: the appended slice is stored in the map, b.mu.Unlock(),
\* and RegisterHandler returns
RegStore(r) ==
    /\ rpc[r] = "locked"
    /\ handlers' = [handlers EXCEPT ![rres[r].eventType] = Append(rread[r], rres[r].id)]
    /\ rmu' = "free"
    /\ stored' = stored \cup {rres[r].id}
    /\ rpc' = [rpc EXCEPT ![r] = "idle"]
    /\ UNCHANGED <<notRegistry, RegistrationErrs, rres, rread, rcalls,
                   errsDue, dpc, dseen>>

\* RegisterHandler, err # nil: b.RegistrationErrs is read for the append;
\* no lock is taken
RegLoadErrs(r) ==
    /\ rpc[r] = "loadErrs"
    /\ rread' = [rread EXCEPT ![r] = RegistrationErrs]
    /\ rpc' = [rpc EXCEPT ![r] = "storeErrs"]
    /\ UNCHANGED <<notRegistry, handlers, RegistrationErrs, rmu, rres, rcalls,
                   stored, errsDue, dpc, dseen>>

\* RegisterHandler, err # nil: the appended slice is stored in
\* b.RegistrationErrs and the call returns
RegStoreErrs(r) ==
    /\ rpc[r] = "storeErrs"
    /\ RegistrationErrs' = Append(rread[r], rres[r].err)
    /\ errsDue' = errsDue + 1
    /\ rpc' = [rpc EXCEPT ![r] = "idle"]
    /\ UNCHANGED <<notRegistry, handlers, rmu, rres, rread, rcalls, stored,
                   dpc, dseen>>

\* determineHandlers: b.mu.RLock()
DetermineRLock ==
    /\ dpc = "idle"
    /\ rmu = "free"
    /\ rmu' = "reader"
    /\ dpc' = "ranging"
    /\ UNCHANGED <<notRegistry, handlers, RegistrationErrs, rpc, rres, rread,
                   rcalls, stored, errsDue, dseen>>

\* determineHandlers: the range over b.handlers, and the deferred RUnlock
DetermineReturn ==
    /\ dpc = "ranging"
    /\ dseen' = handlers
    /\ rmu' = "free"
    /\ dpc' = "idle"
    /\ UNCHANGED <<notRegistry, handlers, RegistrationErrs, rpc, rres, rread,
                   rcalls, stored, errsDue>>

RegistryNext ==
    \/ \E r \in Registrars, fun \in RaceShapes : RegBegin(r, fun)
    \/ \E r \in Registrars : RegLock(r)
    \/ \E r \in Registrars : RegStore(r)
    \/ \E r \in Registrars : RegLoadErrs(r)
    \/ \E r \in Registrars : RegStoreErrs(r)
    \/ DetermineRLock
    \/ DetermineReturn

RegistrySpec == Init /\ [][RegistryNext]_vars

----------------------------------------------------------------------------
(* The shutdown caller: sends a shutdownRequest{ctx, callback} on           *)
(* Brain.shutdown (RecvShutdown) and waits for the acknowledgment on        *)
(* callback (Acknowledge).                                                  *)

\* the context of the request is cancelled while the caller waits; nothing
\* reads the context before the loop has received the request
CtxCancel ==
    /\ Alive
    /\ spc = "waiting"
    /\ ~ctxDone
    /\ ctxDone' = TRUE
    /\ UNCHANGED <<brainVars, queueVars, producerVars, lpc, ctx, shutdown,
                   handleVars, spc>>

----------------------------------------------------------------------------

Next ==
    \/ SetupPhase /\ \E fun \in HandlerShapes : RegisterHandler(fun)
    \/ \E p \in Producers : EmitCall(p)
    \/ \E p \in Producers, data \in PayloadTypes : EmitAccept(p, data)
    \/ \E p \in Producers : EmitPanic(p)
    \/ QueueSeesClose
    \/ QueueCloseLoop
    \/ SetupPhase /\ \E expr \in Exprs : RespondRegexp(expr)
    \/ BotRun
    \/ RecvEvent
    \/ RecvClosed
    \/ RecvShutdown
    \/ LoopNext
    \/ Acknowledge
    \/ Invoke
    \/ HandlerAbort
    \/ \E outcome \in {"nil", "error", "panic"} : ExecDone(outcome)
    \/ \E cause \in {"timer", "parent"} : ExecTimeout(cause)
    \/ \E o \in orphans, abort \in BOOLEAN : OrphanFinish(o, abort)
    \/ Callback
    \/ HandleEventReturn
    \/ CtxCancel

Spec == Init /\ [][Next]_vars

----------------------------------------------------------------------------
(* Helpers of the properties                                               *)

\* the positions of the event id in the dispatch order
PositionsOf(id) == {i \in 1..Len(dispatched) : dispatched[i] = id}

WasDispatched(id) == PositionsOf(id) # {}

\* no handleEvent call is running
LoopBetweenEvents == cur = NoEvent

----------------------------------------------------------------------------
(* C1: shutdown drains before it terminates.  When the loop dispatches the  *)
(* synthetic Shutdown event, every event whose Emit call returned (all of   *)
(* them returned before the request closed eventsInput) has been dispatched *)
(* before it; and the shutdown caller is released only after the dispatch   *)
(* of the Shutdown event is over.                                           *)
C1_ShutdownDrains ==
    /\ \A s \in PositionsOf(ShutdownId) :
          \A id \in Accepted : \E i \in PositionsOf(id) : i < s
    /\ spc = "returned" =>
          /\ WasDispatched(ShutdownId)
          /\ LoopBetweenEvents
          /\ lpc = "returned"

\* the caller has been released after a shutdown that drained an event which
\* was accepted before the request
C1_Witness ==
    /\ spc = "returned"
    /\ drained # {}
    /\ Cardinality(Accepted) = MaxEvents

----------------------------------------------------------------------------
(* C2: per-producer FIFO.  Two events of one producer are dispatched in the *)
(* order in which their Emit calls returned, while Running and while        *)
(* Draining.                                                                *)
C2_PerProducerFIFO ==
    \A i, j \in 1..Len(dispatched) :
        (/\ i < j
         /\ dispatched[i][1] \in Producers
         /\ dispatched[i][1] = dispatched[j][1])
        => dispatched[i][2] < dispatched[j][2]

\* a producer's first event was dispatched while Running and its second one
\* while Draining
C2_Witness ==
    \E p \in Producers :
        /\ WasDispatched(<<p, 1>>)
        /\ <<p, 1>> \notin drained
        /\ <<p, 2>> \in drained

----------------------------------------------------------------------------
(* C5: the Init event is dispatched exactly once, and before every          *)
(* externally emitted event.                                                *)
C5_InitFirst ==
    /\ dispatched # <<>> => PositionsOf(InitId) = {1}
    /\ lpc \notin {"idle", "panicked"} => WasDispatched(InitId)

\* an emitted event has been dispatched after the Init event
C5_Witness ==
    /\ Len(dispatched) >= 2
    /\ dispatched[1] = InitId
    /\ dispatched[2][1] \in Producers

----------------------------------------------------------------------------
(* C6: the Shutdown event is dispatched exactly once, only after eventsLoop *)
(* was closed, and it is the last event dispatched: once it has been        *)
(* handled the loop only acknowledges and returns.                          *)
C6_ShutdownLast ==
    /\ \A s \in PositionsOf(ShutdownId) : s = Len(dispatched) /\ loopClosed
    /\ Cardinality(PositionsOf(ShutdownId)) <= 1
    /\ lpc \in {"ack", "returned"} =>
          /\ WasDispatched(ShutdownId)
          /\ LoopBetweenEvents

\* the loop has returned after the Shutdown event, which followed the Init
\* event and an emitted event
C6_Witness ==
    /\ lpc = "returned"
    /\ Len(dispatched) >= 3
    /\ dispatched[Len(dispatched)] = ShutdownId

----------------------------------------------------------------------------
(* Helpers of the properties about one dispatch                            *)

\* ids of the handlers registered under the exact type, or under an
\* interface type that eventType implements
Matching(eventType) ==
    UNION {Range(handlers[t]) :
           t \in {r \in RegTypes : r = eventType \/
                                   (IsInterface(r) /\ Implements(eventType, r))}}

\* how often the handler h has been invoked for cur
Invocations(h) == Cardinality({i \in 1..Len(invoked) : invoked[i] = h})

\* position of the handler h in the resolved order (0: not resolved)
Position(h) ==
    IF \E i \in 1..Len(hs) : hs[i] = h
    THEN CHOOSE i \in 1..Len(hs) : hs[i] = h
    ELSE 0

\* the handler h comes, in the resolved order, after the handler that set
\* AbortEarly on cur
AfterAborter(h) == abortBy.hid # 0 /\ Position(abortBy.hid) < Position(h)

\* the handler loop of the running handleEvent call is over
HandlerLoopOver == lpc \in {"callbacks", "handled"}

NeverTwice ==
    /\ \A id \in Accepted : Cardinality(PositionsOf(id)) <= 1
    /\ \A h \in 1..NumHandlers : Invocations(h) <= 1

----------------------------------------------------------------------------
(* C3, as claimed: every accepted event is dispatched at most once, and in  *)
(* its dispatch every matching handler is invoked exactly once, except the  *)
(* handlers positioned after a handler that set AbortEarly, which are       *)
(* invoked zero times.                                                      *)
C3_ExactlyOnceAsClaimed ==
    /\ NeverTwice
    /\ HandlerLoopOver =>
          \A h \in Matching(cur.Data) :
              Invocations(h) = IF AfterAborter(h) THEN 0 ELSE 1

(* C3, amended: ... except the handlers positioned after a handler that set *)
(* AbortEarly before its invocation returned or timed out, which are        *)
(* invoked zero times, and the handlers positioned after a timed-out        *)
(* handler that set AbortEarly later, which are invoked at most once.       *)
C3_ExactlyOnce ==
    /\ NeverTwice
    /\ HandlerLoopOver =>
          \A h \in Matching(cur.Data) :
              IF AfterAborter(h)
              THEN IF abortBy.late THEN Invocations(h) <= 1 ELSE Invocations(h) = 0
              ELSE Invocations(h) = 1

\* a Greeting has been delivered to a handler of its exact type and to a
\* handler of an interface type it implements, once each
C3_Witness ==
    /\ lpc = "handled"
    /\ cur.Data = "Greeting"
    /\ handlers["Greeting"] # <<>>
    /\ handlers["Greeter"] # <<>> \/ handlers["Any"] # <<>>
    /\ Len(invoked) = 2
    /\ ~cur.AbortEarly

----------------------------------------------------------------------------
----------------------------------------------------------------------------
(* C8: abort is scoped to one event.  No queued event carries the flag, the *)
(* flag of the event in dispatch is only ever set by a handler that was     *)
(* invoked for this event (so every dispatch starts with AbortEarly false,  *)
(* whatever handlers of earlier events did or still do), and an event none  *)
(* of whose handlers set the flag has all its matching handlers invoked.    *)
C8_AbortScoped ==
    /\ \A i \in 1..Len(queue) : ~queue[i].AbortEarly
    /\ cur.AbortEarly => abortBy.evt = cur.id /\ abortBy.hid \in Range(invoked)
    /\ HandlerLoopOver /\ abortBy.evt # cur.id =>
          \A h \in Matching(cur.Data) : Invocations(h) = 1

\* an emitted event has had all its handlers invoked although a timed-out
\* handler of an earlier event called FinishEventContent in the background
C8_Witness ==
    /\ lpc = "handled"
    /\ cur.id[1] \in Producers
    /\ ~cur.AbortEarly
    /\ Len(invoked) = MaxHandlers
    /\ \E o \in orphans : o.did /\ o.evt # cur.id

----------------------------------------------------------------------------
(* C9: for every dispatched event, each completion callback passed to Emit  *)
(* is invoked exactly once, in the order given to Emit, after the last      *)
(* handler invocation of the event and before the loop takes the next       *)
(* event: no callback runs while the handler loop is running, and when the  *)
(* dispatch of the event is over (handleEvent returned or panicked) all its *)
(* callbacks have run, in order.                                            *)
C9_CallbacksOnce ==
    /\ lpc \in {"exec", "wait"} => cbLog = <<>>
    /\ lpc \in {"handled", "panicked"} => cbLog = cur.Callbacks

----------------------------------------------------------------------------
(* C10: with a positive handlerTimeout, when the deadline ends the wait for *)
(* a handler that has not returned, executeEventHandler returns             *)
(* DeadlineExceeded and the loop goes on to the next handler, the callbacks *)
(* and the next event: it never waits for the abandoned handler, whose      *)
(* goroutine is left behind.                                                *)
C10_TimeoutProceeds ==
    /\ execErr = "DeadlineExceeded" =>
          /\ handlerTimeout > 0
          /\ lpc \in {"exec", "callbacks"}
          /\ \E o \in orphans : o.evt = cur.id /\ o.hid = invoked[Len(invoked)]
    /\ \A o \in orphans : ~(lpc = "wait" /\ o.evt = cur.id /\ o.hid = hs[hidx])
    /\ orphans # {} /\ Alive =>
          /\ lpc = "exec" => ENABLED Invoke
          /\ lpc = "callbacks" => ENABLED (Callback \/ HandleEventReturn)
          /\ lpc = "handled" => ENABLED LoopNext
          /\ lpc = "select" /\ queue # <<>> /\ qpc # "done" => ENABLED RecvEvent

\* the loop waits for a handler of the next queued event while the handler
\* that exceeded the timeout in an earlier dispatch is still running
C10_Witness ==
    /\ handlerTimeout > 0
    /\ ctx = "background"
    /\ lpc = "wait"
    /\ cur.id[1] \in Producers
    /\ \E o \in orphans : o.st = "running" /\ o.evt # cur.id

----------------------------------------------------------------------------
(* Fairness.  The Go scheduler runs every goroutine that can proceed: the   *)
(* queue goroutine and the dispatch loop take the steps they are ready for. *)
(* Every handler invocation ends, by its return or by the deadline of the   *)
(* executor, and Bot.Run calls HandleEvents.                                *)

Fairness ==
    /\ WF_vars(\E p \in Producers, data \in PayloadTypes : EmitAccept(p, data))
    /\ WF_vars(QueueSeesClose)
    /\ WF_vars(QueueCloseLoop)
    /\ WF_vars(HandleEventsStart)
    /\ WF_vars(RecvEvent)
    /\ WF_vars(RecvClosed)
    /\ WF_vars(LoopNext)
    /\ WF_vars(Acknowledge)
    /\ WF_vars(Invoke)
    /\ WF_vars((\E outcome \in {"nil", "error", "panic"} : ExecDone(outcome))
               \/ (\E cause \in {"timer", "parent"} : ExecTimeout(cause)))
    /\ WF_vars(Callback)
    /\ WF_vars(HandleEventReturn)

LiveSpec == Spec /\ Fairness

\* the process has stopped: a goroutine died of a panic, or HandleEvents returned
Stopped == ~Alive \/ lpc = "returned"

(* C4: no accepted event is dropped.  Every event whose Emit call returned  *)
(* is eventually dispatched by the running loop; in the finite-run form,    *)
(* when the process has stopped no accepted event is left undispatched      *)
(* (a stopped process stutters for ever, which every fairness condition     *)
(* allows, so an event left behind then is never dispatched).               *)
C4_NoEventDropped ==
    Stopped => \A id \in Accepted : WasDispatched(id)

\* the same claim as a leads-to property of LiveSpec
C4_EventuallyDispatched ==
    \A id \in Producers \X (1..MaxEvents) :
        (id \in Accepted) ~> WasDispatched(id)

----------------------------------------------------------------------------
\* what the handler loop does after an invocation that ended with an error
\* and without a timeout: break on AbortEarly or after the last handler,
\* else the next handler
NextAfterError ==
    IF cur.AbortEarly \/ hidx >= Len(hs) THEN "callbacks" ELSE "exec"

(* C11: a panic raised inside a handler body is recovered by the wrapper   *)
(* and returned as a handler error.  The step that ends such an invocation  *)
(* leaves the loop alive and at the same place as a returned error would:   *)
(* the next handler, or the callbacks; nothing of the event or the queue is *)
(* lost; and from there the loop can always take its next step.             *)
C11_PanicIsError ==
    /\ [][ExecDone("panic") =>
            /\ execErr' = "handler panic"
            /\ lpc' = NextAfterError
            /\ Alive'
            /\ <<cur, hs, queue, dispatched, invoked>>' =
                   <<cur, hs, queue, dispatched, invoked>>]_vars
    /\ [](execErr = "handler panic" /\ Alive =>
            /\ lpc \in {"exec", "callbacks"}
            /\ lpc = "exec" => ENABLED Invoke
            /\ lpc = "callbacks" => ENABLED (Callback \/ HandleEventReturn))

\* the first handler of an emitted event has panicked and the loop is about
\* to invoke the second one
C11_Witness ==
    /\ execErr = "handler panic"
    /\ lpc = "exec"
    /\ hidx = 2
    /\ cur.id[1] \in Producers

----------------------------------------------------------------------------
(* C12: a non-nil error returned by a handler does not stop the handler     *)
(* sequence.  After such a return the loop goes on with the next handler in *)
(* the resolved order unless AbortEarly is set or the handler was the last  *)
(* one, and then goes to the callbacks; the error is only printed.          *)
C12_ErrorGoesOn ==
    /\ [][ExecDone("error") =>
            /\ execErr' = "handler error"
            /\ IF ~cur.AbortEarly /\ hidx < Len(hs)
               THEN lpc' = "exec" /\ hidx' = hidx + 1
               ELSE lpc' = "callbacks" /\ hidx' = hidx
            /\ cur' = cur /\ hs' = hs /\ cbLog' = cbLog]_vars
    /\ [](execErr = "handler error" /\ lpc = "exec" /\ Alive => ENABLED Invoke)
    /\ [](lpc = "handled" /\ ~cur.AbortEarly =>
            /\ \A i \in 1..Len(hs) : hs[i] \in Range(invoked)
            /\ cbLog = cur.Callbacks)

\* the first handler of an emitted event has returned an error, AbortEarly
\* is not set, and the loop is about to invoke the second handler
C12_Witness ==
    /\ execErr = "handler error"
    /\ lpc = "exec"
    /\ hidx = 2
    /\ ~cur.AbortEarly
    /\ cur.id[1] \in Producers
    /\ cur.Callbacks # <<>>

----------------------------------------------------------------------------
(* C13: once started, HandleEvents stops only because of a shutdown request *)
(* followed by the drain.  The loop never crashes, whatever payload was     *)
(* emitted, and it has returned only after it received a shutdown request,  *)
(* eventsLoop was closed and the Shutdown event was dispatched.             *)
C13_OnlyShutdownStops ==
    /\ lpc # "panicked"
    /\ lpc = "returned" =>
          /\ shutdown = "set"
          /\ loopClosed
          /\ WasDispatched(ShutdownId)

----------------------------------------------------------------------------
\* the handlers the event in dispatch has been given to and that the loop
\* has neither seen return nor abandoned
AwaitedHandlers == IF lpc = "wait" THEN {hs[hidx]} ELSE {}

(* C14: the dispatch loop never has two events in dispatch at once.  An     *)
(* event is taken for dispatch only when no handleEvent call is running:    *)
(* the handler loop and the callbacks of the event before it are over, each *)
(* of its handlers has returned or was abandoned by timeout.  The event in  *)
(* dispatch is always the last one taken, and only its handler is awaited.  *)
C14_OneEventInDispatch ==
    /\ [][dispatched' # dispatched =>
            /\ LoopBetweenEvents
            /\ lpc \in {"idle", "select"}
            /\ AwaitedHandlers = {}
            /\ invoked = <<>> /\ cbLog = <<>>
            /\ Len(dispatched') = Len(dispatched) + 1]_vars
    /\ [](~LoopBetweenEvents =>
            /\ dispatched # <<>>
            /\ dispatched[Len(dispatched)] = cur.id
            /\ Range(invoked) \subseteq Range(hs))
    /\ [](lpc = "handled" => cbLog = cur.Callbacks /\ AwaitedHandlers = {})

\* the second emitted event is in dispatch and its handler is awaited, while
\* the abandoned handler of the first emitted event is still running
C14_Witness ==
    /\ Len(dispatched) = 3
    /\ dispatched[2][1] \in Producers
    /\ dispatched[3][1] \in Producers
    /\ AwaitedHandlers # {}
    /\ \E o \in orphans : o.evt = dispatched[2] /\ o.st = "running"

----------------------------------------------------------------------------
\* the send of Emit by producer p can be received by the queue goroutine
CanAccept(p) == ENABLED (\E data \in PayloadTypes : EmitAccept(p, data))

C15_EmitReturns ==
    \A p \in Producers :
        (ppc[p] = "sending") ~> (ppc[p] = "idle" \/ inputClosed \/ ~Alive)

----------------------------------------------------------------------------
\* the shapes C16 calls invalid
InvalidShape(fun) ==
    \/ fun.kind # "func"
    \/ Len(fun.in) = 0 \/ Len(fun.in) > 2
    \/ fun.in[Len(fun.in)] = "ptr"
    \/ Len(fun.in) = 2 /\ (fun.in[1] # "ctx" \/ fun.in[2] = "ctx")
    \/ Len(fun.out) > 1
    \/ Len(fun.out) = 1 /\ fun.out[1] # "error"

\* RegisterHandler(fun) returns with one more error and the same registry
RejectedBy(fun) ==
    RegisterHandler(fun) =>
        /\ bpc' # "panicked"
        /\ Len(RegistrationErrs') = Len(RegistrationErrs) + 1
        /\ SubSeq(RegistrationErrs', 1, Len(RegistrationErrs)) = RegistrationErrs
        /\ handlers' = handlers

(* C16: RegisterHandler called with any value of invalid shape does not     *)
(* panic, appends exactly one error to RegistrationErrs and leaves the      *)
(* handler registry unchanged.                                              *)
C16_InvalidShapeRejected ==
    [][SetupPhase => \A fun \in HandlerShapes : InvalidShape(fun) => RejectedBy(fun)]_vars

----------------------------------------------------------------------------
(* C17: Bot.Run refuses to start the loop while registration errors exist.  *)
(* A call of Run with a non-empty RegistrationErrs (from an invalid handler *)
(* shape or from a regular expression that did not compile) returns the     *)
(* error and never enters HandleEvents: the loop stays where it was, no     *)
(* Init event and no other event is dispatched, then or later.              *)
C17_RunRefuses ==
    /\ [][bpc = "setup" /\ bpc' \in {"refused", "running"} =>
            IF Len(RegistrationErrs) > 0
            THEN bpc' = "refused" /\ lpc' = "idle" /\ dispatched' = dispatched
            ELSE bpc' = "running"]_vars
    /\ [](bpc = "refused" =>
            /\ RegistrationErrs # <<>>
            /\ lpc = "idle"
            /\ handlingEvents = 0
            /\ dispatched = <<>>)
    /\ [](dispatched # <<>> => RegistrationErrs = <<>>)

\* Run has refused with one error from RespondRegexp and one from an invalid
\* handler shape, and an event emitted afterwards waits in the queue
C17_Witness ==
    /\ bpc = "refused"
    /\ Len(RegistrationErrs) = 2
    /\ RegistrationErrs[1] = "someone: error parsing regexp"
    /\ RegistrationErrs[2] = "event handler argument cannot be a pointer"
    /\ queue # <<>>
    /\ NumHandlers > 0

----------------------------------------------------------------------------
\* the type the handler h is registered under
RegisteredUnder(h) == CHOOSE t \in RegTypes : h \in Range(handlers[t])

\* h is in the resolved order of cur as a handler of the exact type of the
\* payload, or as a handler of an interface type the payload implements
ExactMatch(h) == RegisteredUnder(h) = cur.Data
CapabilityMatch(h) ==
    /\ RegisteredUnder(h) # cur.Data
    /\ IsInterface(RegisteredUnder(h))

(* C18: handler order on dispatch.  In the resolved order of an event the   *)
(* handlers of the exact type come in their registration order, and the     *)
(* handlers matched through interface types come in their registration      *)
(* order relative to each other, also when they are registered under        *)
(* different interface types.  (Handler ids count the registrations.)       *)
C18_HandlerOrder ==
    \A i, j \in 1..Len(hs) :
        i < j =>
            /\ ExactMatch(hs[i]) /\ ExactMatch(hs[j]) => hs[i] < hs[j]
            /\ CapabilityMatch(hs[i]) /\ CapabilityMatch(hs[j]) => hs[i] < hs[j]

----------------------------------------------------------------------------
(* C19: for every Adapter variant, after a first Close call has returned,   *)
(* every later Close call returns a non-nil error.                          *)
C19_SecondCloseFails ==
    \A i \in 1..Len(closeLog) : closeLog[i].late => closeLog[i].err # "nil"

----------------------------------------------------------------------------
(* C20: Storage round trip.  After Set(k, v) returned nil, and with no      *)
(* later Set, Delete or Close affecting k, Get(k, &out) returns (true, nil) *)
(* and out equals v; of several Sets of k the last one counts.              *)

\* the call at position j changed, or removed, what is stored under k
Affects(j, k) ==
    \/ storageLog[j].op = "Close"
    \/ storageLog[j].op = "Delete" /\ storageLog[j].key = k
    \/ storageLog[j].op = "Set" /\ storageLog[j].key = k
                                /\ storageLog[j].err = "nil"

\* the call at position i is a Get into a target that follows a Set of the
\* same key at position j, with nothing affecting the key in between
GetAfterSet(i, j) ==
    /\ j < i
    /\ storageLog[i].op = "Get"
    /\ storageLog[i].target = "ptr"
    /\ storageLog[j].op = "Set"
    /\ storageLog[j].err = "nil"
    /\ storageLog[j].key = storageLog[i].key
    /\ \A m \in (j + 1)..(i - 1) : ~Affects(m, storageLog[i].key)

C20_RoundTrip ==
    \A i, j \in 1..Len(storageLog) :
        GetAfterSet(i, j) =>
            /\ storageLog[i].found
            /\ storageLog[i].err = "nil"
            /\ storageLog[i].out = storageLog[j].value.bytes

----------------------------------------------------------------------------
(* C21: Storage.Get on a key that is not present (never set, deleted, or    *)
(* cleared by Close) returns found = false and a nil error, for a nil       *)
(* target and for a non-nil target alike.                                   *)

\* the key of the call at position i was not in the map when the call began:
\* no successful Set of it is left standing by the calls before
AbsentAt(i) ==
    ~\E j \in 1..(i - 1) :
        /\ storageLog[j].op = "Set"
        /\ storageLog[j].err = "nil"
        /\ storageLog[j].key = storageLog[i].key
        /\ \A m \in (j + 1)..(i - 1) : ~Affects(m, storageLog[i].key)

C21_GetAbsent ==
    \A i \in 1..Len(storageLog) :
        storageLog[i].op = "Get" /\ AbsentAt(i) =>
            /\ ~storageLog[i].found
            /\ storageLog[i].err = "nil"

----------------------------------------------------------------------------
(* C22: registry access is mutually excluded.  determineHandlers never      *)
(* ranges over the registry while a RegisterHandler call is between its     *)
(* read and its write of it, what it ranged over holds only completed       *)
(* registrations, and every handler whose registration completed is in the  *)
(* registry exactly once, also when two registrations of one payload type   *)
(* race.                                                                    *)

\* how often the handler id occurs in the registry reg
Occurrences(reg, id) ==
    Cardinality({<<t, i>> \in RegTypes \X (1..(MaxRegCalls * 2)) :
                    i <= Len(reg[t]) /\ reg[t][i] = id})

C22_RegistryExcluded ==
    /\ dpc = "ranging" => \A r \in Registrars : rpc[r] # "locked"
    /\ \A r1, r2 \in Registrars :
          rpc[r1] = "locked" /\ rpc[r2] = "locked" => r1 = r2
    /\ \A id \in stored : Occurrences(handlers, id) = 1
    /\ \A id \in 1..(MaxRegCalls * 2) :
          Occurrences(dseen, id) = 1 => id \in stored

\* a registration waited for the lock while another of the same payload type
\* held it, and both are in the registry now, after a dispatch looked at it
C22_Witness ==
    /\ Len(handlers["Greeting"]) = 2
    /\ HandlerOf("r1", 1) \in stored
    /\ HandlerOf("r2", 1) \in stored
    /\ rcalls = [r \in Registrars |-> 1]
    /\ Len(dseen["Greeting"]) = 1

----------------------------------------------------------------------------
(* C29: the aggregate error list loses no entry under concurrency.  When    *)
(* RegisterHandler calls with invalid handlers ran concurrently,            *)
(* RegistrationErrs holds the error of each of them once they returned.     *)
C29_NoErrLost ==
    (\A r \in Registrars : rpc[r] = "idle") => Len(RegistrationErrs) = errsDue

----------------------------------------------------------------------------
(* C23: once a shutdown has completed, the Brain is marked closed (the      *)
(* closed flag is non-zero), so that a later call of HandleEvents finds     *)
(* isClosed() true and returns at once, dispatching nothing.                *)
C23_ClosedAfterShutdown ==
    lpc = "returned" /\ spc = "returned" => closed # 0

----------------------------------------------------------------------------
(* C24: the CLIAdapter keeps at most one ReceiveMessageEvent outstanding.   *)
(* After emitting the event for one input line it takes no further line     *)
(* and emits no further event until the completion callback of that event   *)
(* has fired and the loop has received it; the prompt prefix is printed      *)
(* between the lines of two events.                                         *)

\* events of the adapter on their way: being emitted, with the Brain, or
\* reported back on the callback channel and not yet received by the loop
InFlight == (IF apc = "emit" THEN 1 ELSE 0) + outstanding + callback

C24_OneOutstanding ==
    akind = "cli" =>
        /\ InFlight <= 1
        /\ InFlight = 1 => lines = "nil"
        /\ \A i, j \in 1..Len(output) :
              i < j /\ output[i] = "line" /\ output[j] = "line" =>
                  \E m \in (i + 1)..(j - 1) : output[m] = "prefix"

\* the second line was taken and is being emitted, after the first event's
\* callback had fired
C24_Witness ==
    /\ akind = "cli"
    /\ apc = "emit"
    /\ stdin = MaxLines - 2
    /\ SelectSeq(output, LAMBDA o : o \in {"line", "prefix"})
          = <<"line", "prefix", "line">>

----------------------------------------------------------------------------
(* C25: after CLIAdapter.Close has returned, every later call of Send,      *)
(* however many are made, returns the error "adapter is closed" and writes  *)
(* nothing to Output.                                                       *)
C25_SendAfterClose ==
    [][ akind = "cli" /\ closing = "nil" /\ SendCall("nil") =>
            /\ sendLog' = Append(sendLog, "adapter is closed")
            /\ output' = output ]_vars

----------------------------------------------------------------------------
(* C26: the completion callback installed by the CLIAdapter never blocks    *)
(* the dispatch loop of the Brain.  Whenever an event of the adapter is     *)
(* with the Brain, the one-slot callback channel is empty, so the send of   *)
(* callbackFun completes at once, also when the adapter loop has returned   *)
(* through Close in the meantime.                                           *)
C26_CallbackNeverBlocks ==
    akind = "cli" /\ outstanding > 0 => callback = 0 /\ ENABLED BrainCallback

\* the adapter loop returned through Close while its event was with the
\* Brain, and the callback has been sent since
C26_Witness ==
    /\ akind = "cli"
    /\ apc = "returned"
    /\ outstanding = 0
    /\ callback = 1
    /\ SelectSeq(output, LAMBDA o : o \in {"line", "prefix"}) = <<"line", "prefix">>

----------------------------------------------------------------------------
(* C27: an Emit call that races with, or follows, the loop's handling of a  *)
(* shutdown request never panics its calling producer: its event is either  *)
(* accepted and drained before the Shutdown event, or rejected.             *)
C27_EmitNeverPanics ==
    \A p \in Producers : ppc[p] # "panicked"

----------------------------------------------------------------------------
(* C28: after a handler invocation timed out, the goroutine that runs the   *)
(* handler terminates once the handler body returns: it is never left       *)
(* blocked in the delivery of its result on the done channel.               *)
C28_OrphanTerminates ==
    \A o \in orphans : o.st # "blocked"

====
